---- MODULE Spec2Model ----
(***************************************************************************)
(* VozNota backend: registration, login, the bearer-token gate and the     *)
(* note endpoints, modelled as request handlers that run concurrently      *)
(* against two remote document stores (users, notes).                      *)
(*                                                                         *)
(* A request occupies one worker slot of Workers. A handler is cut into one*)
(* step per remote round trip (a store call), so that two requests can     *)
(* interleave exactly where the code can be interleaved.                   *)
(***************************************************************************)
EXTENDS Integers, Sequences, FiniteSets, TLC

VARIABLES
    users,          \* the users database: a set of user documents
    notes,          \* the transcriptions database: a set of note documents
    issued,         \* tokens handed to clients by login
    clock,          \* wall clock, in ticks of 1/TicksPerSecond second
    req,            \* req[p]: the request worker p is serving
    nextUid,        \* number of user documents the store has assigned ids to
    nextNid,        \* number of note documents the store has assigned ids to
    notAuthStatus,  \* status HTTPBearer answers without credentials (build-dependent)
    overlapped,     \* history: some create_user began inside another one
    tcase,          \* token round-trip harness: inputs and results
    fcase           \* function harness: a call of a pure function and its result

vars == <<users, notes, issued, clock, req, nextUid, nextNid, notAuthStatus,
          overlapped, tcase, fcase>>

----------------------------------------------------------------------------
(* Bounds of the model *)

MaxUsers == 2        \* user documents ever created
MaxNotes == 2        \* note documents ever created
MaxTime == 4         \* last clock tick
MaxTokens == 1       \* distinct tokens held by clients
TicksPerSecond == 2  \* clock resolution: datetime has sub-second precision

Emails == {"ana@x.pe", "beto@x.pe"}

\* a password is the sequence of the bytes of its UTF-8 encoding; the long
\* one is 71 ASCII characters and a two-byte one (72 characters, 73 bytes)
LongPassword == [i \in 1..71 |-> 97] \o <<195, 169>>
Passwords == {<<1, 2, 3, 4, 5, 6>>, LongPassword}

None == "None"

----------------------------------------------------------------------------
(* Configuration (config.py) *)

JWT_SECRET_KEY == "server-secret"
OtherSecret == "other-secret"

\* JWT_ACCESS_TOKEN_EXPIRE_MINUTES is read from the environment; the model
\* runs with a lifetime of one second so that expiry is reachable.
JWT_ACCESS_TOKEN_EXPIRE_SECONDS == 1

----------------------------------------------------------------------------
(* Token Service: python-jose encode/decode as used by AuthService *)

\* timegm(dt.utctimetuple()): a datetime is cut down to whole seconds
Timegm(ticks) == ticks \div TicksPerSecond

\* HMAC of the payload under a key: equal only for equal key and payload
Sign(key, payload) == [key |-> key, payload |-> payload]

JwtEncode(payload, key) ==
    [fmt |-> "jws", payload |-> payload, sig |-> Sign(key, payload)]

\* a string that is not three base64 segments
GarbageToken ==
    [fmt |-> "garbage",
     payload |-> [sub |-> None, email |-> None, exp |-> 0],
     sig |-> Sign("", [sub |-> None, email |-> None, exp |-> 0])]

\* create_access_token(data) with expires_delta = None, called at tick `now`
create_access_token(data, now) ==
    LET expire == now + JWT_ACCESS_TOKEN_EXPIRE_SECONDS * TicksPerSecond
        to_encode == [sub |-> data.sub, email |-> data.email, exp |-> Timegm(expire)]
    IN  JwtEncode(to_encode, JWT_SECRET_KEY)

\* mutant: a token counts as expired from the first instant of its last second
JwtDecodeFails_ExpInclusive(token, key, now) ==
    \/ token.fmt # "jws"
    \/ token.sig # Sign(key, token.payload)
    \/ token.payload.exp <= Timegm(now)

\* jwt.decode(token, key): the JWTError cases, else the payload
\*   - not a JWS, or signature not made with `key` over this payload
\*   - exp < now (leeway 0), now in whole seconds
\*   - sub present but not a string does not arise: ids are strings
JwtDecodeFails(token, key, now) ==
    \/ token.fmt # "jws"
    \/ token.sig # Sign(key, token.payload)
    \/ token.payload.exp < Timegm(now)

CredentialsException == [ok |-> FALSE, status |-> 401, user_id |-> None, email |-> None]

\* mutant: the subject id is not checked for None
verify_token_NoSubCheck(token, now) ==
    IF token.fmt # "jws" \/ token.sig # Sign(JWT_SECRET_KEY, token.payload)
       \/ token.payload.exp < Timegm(now)
    THEN [ok |-> FALSE, status |-> 401, user_id |-> None, email |-> None]
    ELSE [ok |-> TRUE, status |-> 200,
          user_id |-> token.payload.sub, email |-> token.payload.email]

\* verify_token(token) called at tick `now`: TokenData or the 401 exception
verify_token(token, now) ==
    IF JwtDecodeFails(token, JWT_SECRET_KEY, now)
    THEN CredentialsException
    ELSE IF token.payload.sub = None
         THEN CredentialsException
         ELSE [ok |-> TRUE, status |-> 200,
               user_id |-> token.payload.sub, email |-> token.payload.email]

----------------------------------------------------------------------------
(* Credential Store (UserService) *)

\* ids the users database assigns: opaque, never reused
UserId(n) == "u" \o ToString(n)

\* UTF-8: the first byte of a character tells how many bytes it has, the
\* bytes after it are continuation bytes
Width(b) == IF b < 128 THEN 1 ELSE IF b < 224 THEN 2 ELSE IF b < 240 THEN 3 ELSE 4
IsContinuation(b) == b >= 128 /\ b < 192

\* bytes.decode('utf-8', errors='ignore') of a prefix of a valid encoding,
\* as bytes again: a character the cut left incomplete is dropped
DecodeIgnore(bytes) ==
    LET starts == {i \in 1..Len(bytes) : ~IsContinuation(bytes[i])} IN
    IF starts = {} THEN << >>
    ELSE LET last == CHOOSE i \in starts : \A j \in starts : j <= i IN
         IF last + Width(bytes[last]) - 1 <= Len(bytes) THEN bytes
         ELSE SubSeq(bytes, 1, last - 1)

\* if len(password.encode('utf-8')) > 72:
\*     password = password.encode('utf-8')[:72].decode('utf-8', errors='ignore')
Truncate(password) ==
    IF Len(password) > 72 THEN DecodeIgnore(SubSeq(password, 1, 72)) ELSE password

\* pwd_context.hash: a bcrypt digest of the truncated password
hash_password(password) == [scheme |-> "bcrypt", digest |-> Truncate(password)]

\* mutant: the password is verified as it was typed
verify_password_NoTruncate(plain_password, hashed_password) ==
    hashed_password = [scheme |-> "bcrypt", digest |-> plain_password]

\* pwd_context.verify
verify_password(plain_password, hashed_password) ==
    hashed_password = [scheme |-> "bcrypt", digest |-> Truncate(plain_password)]

\* the user without its hash, as create_user, authenticate_user and
\* get_user_by_id return it (created_at is carried along and never read)
Public(u) == [id |-> u.id, email |-> u.email, is_active |-> u.is_active]

NoUser == [id |-> None, email |-> None, is_active |-> FALSE]

\* mutant: the selector names the wrong field
get_user_by_email_WrongField(email) == {u \in users : u.id = email}

\* get_user_by_email: post_find(selector={"email": email}, limit=1).
\* The documents it may return as docs[0]: any one with that email.
get_user_by_email(email) == {u \in users : u.email = email}

\* get_user_by_id: get_document, 404 -> None.  At most one document has the id.
get_user_by_id(user_id) == {Public(u) : u \in {v \in users : v.id = user_id}}

\* the document create_user posts, with the id the store assigns to it
user_doc(email, password, n) ==
    [id |-> UserId(n), email |-> email,
     hashed_password |-> hash_password(Truncate(password)), is_active |-> TRUE]

----------------------------------------------------------------------------
(* Authorization Gate: HTTPBearer -> get_current_user -> get_current_active_user *)

NoHeader == [present |-> FALSE, scheme |-> "", credentials |-> {}]
BearerHeader(t) == [present |-> TRUE, scheme |-> "Bearer", credentials |-> {t}]
MalformedHeaders ==
    { [present |-> TRUE, scheme |-> "Basic", credentials |-> {GarbageToken}],
      [present |-> TRUE, scheme |-> "Bearer", credentials |-> {}] }

Lower(scheme) ==
    CASE scheme = "Bearer" -> "bearer"
      [] scheme = "Basic" -> "basic"
      [] OTHER -> scheme

\* security = HTTPBearer(), auto_error on: without usable credentials it
\* raises "Not authenticated" with the status of the installed FastAPI
\* (403 before 0.122, 401 from then on); the repository pins neither.
security(hdr) ==
    IF ~hdr.present \/ hdr.scheme = "" \/ hdr.credentials = {}
    THEN [ok |-> FALSE, status |-> notAuthStatus, credentials |-> {}]
    ELSE IF Lower(hdr.scheme) # "bearer"
         THEN [ok |-> FALSE, status |-> notAuthStatus, credentials |-> {}]
         ELSE [ok |-> TRUE, status |-> 200, credentials |-> hdr.credentials]

GateReject(status) ==
    [ok |-> FALSE, status |-> status, user |-> NoUser, broken |-> FALSE]

\* AuthService.get_current_user, with the store answering (fault = FALSE)
\* or failing with an error other than 404 (fault = TRUE)
get_current_user(hdr, fault) ==
    LET cred == security(hdr) IN
    IF ~cred.ok THEN GateReject(cred.status)
    ELSE LET token == CHOOSE t \in cred.credentials : TRUE
             token_data == verify_token(token, clock)
         IN  IF ~token_data.ok THEN GateReject(401)
             ELSE IF fault THEN [GateReject(500) EXCEPT !.broken = TRUE]
             ELSE LET found == get_user_by_id(token_data.user_id) IN
                  IF found = {} THEN GateReject(401)
                  ELSE [ok |-> TRUE, status |-> 200,
                        user |-> CHOOSE u \in found : TRUE, broken |-> FALSE]

\* mutant: the active flag is not looked at
get_current_active_user_NoActiveCheck(hdr, fault) == get_current_user(hdr, fault)

\* AuthService.get_current_active_user
get_current_active_user(hdr, fault) ==
    LET current == get_current_user(hdr, fault) IN
    IF ~current.ok THEN current
    ELSE IF ~current.user.is_active THEN GateReject(400)
         ELSE current

----------------------------------------------------------------------------
(* Requests *)

\* status, detail and www_authenticate are the response (detail and the
\* header are kept for the login route only); error is the exception a
\* service call of the handler ended with, as the handler receives it.
\* fault, calls, ops, tried and outcomes are history: a remote call of this
\* request failed, the speech-service calls and the note-store operations it
\* has made, the content types it tried and what came back for each;
\* rev_passed and store_status are the revision given to delete_document
\* and the status the store answered to it
Idle ==
    [op |-> "idle", pc |-> "idle", hdr |-> NoHeader, email |-> None,
     password |-> << >>, user |-> NoUser, status |-> 0, token |-> {},
     detail |-> None, www_authenticate |-> None, error |-> None,
     note_id |-> None, note |-> {}, content_type |-> None, size |-> 0,
     last_error |-> {}, stt |-> "idle", stt_error |-> {}, text |-> << >>,
     limit |-> 0, listed |-> {},
     fault |-> FALSE, calls |-> 0, ops |-> 0, tried |-> << >>, outcomes |-> << >>,
     rev_passed |-> {}, store_status |-> 0]

\* what a client without the secret can put in a header besides the tokens
\* it was given: garbage, a token signed with its own key, or an issued
\* token with the expiry pushed back under the old signature
ForgedTokens ==
    {GarbageToken,
     JwtEncode([sub |-> UserId(1), email |-> "ana@x.pe", exp |-> MaxTime], OtherSecret)}
    \cup {[t EXCEPT !.payload.exp = MaxTime] : t \in issued}

Headers ==
    {NoHeader} \cup MalformedHeaders
    \cup {BearerHeader(t) : t \in issued \cup ForgedTokens}

\* the workers serving requests
Workers == DOMAIN req

Finish(r, status) == [r EXCEPT !.pc = "done", !.status = status]

\* the request ends because a remote call failed
Broken(r, status) == [r EXCEPT !.pc = "done", !.status = status, !.fault = TRUE]

\* the request ends because a service call raised `error` to the handler
\* after a remote call failed: "ApiException" is the store's own error,
\* "Exception" a new one the service made out of it
Raised(r, status, error) == [Broken(r, status) EXCEPT !.error = error]

\* a request arrives on a free worker
SubmitRegister(p, email, password) ==
    /\ req[p].pc = "idle"
    /\ nextUid < MaxUsers
    /\ req' = [req EXCEPT ![p] = [Idle EXCEPT !.op = "register", !.pc = "lookup",
                                              !.email = email, !.password = password]]
    /\ UNCHANGED <<users, notes, issued, clock, nextUid, nextNid, notAuthStatus,
                   overlapped, tcase, fcase>>

SubmitLogin(p, email, password) ==
    /\ req[p].pc = "idle"
    /\ req' = [req EXCEPT ![p] = [Idle EXCEPT !.op = "login", !.pc = "login",
                                              !.email = email, !.password = password]]
    /\ UNCHANGED <<users, notes, issued, clock, nextUid, nextNid, notAuthStatus,
                   overlapped, tcase, fcase>>

SubmitMe(p, hdr) ==
    /\ req[p].pc = "idle"
    /\ req' = [req EXCEPT ![p] = [Idle EXCEPT !.op = "me", !.pc = "gate", !.hdr = hdr]]
    /\ UNCHANGED <<users, notes, issued, clock, nextUid, nextNid, notAuthStatus,
                   overlapped, tcase, fcase>>

\* the response is sent and the worker is free again
Respond(p) ==
    /\ req[p].pc = "done"
    /\ req' = [req EXCEPT ![p] = Idle]
    /\ UNCHANGED <<users, notes, issued, clock, nextUid, nextNid, notAuthStatus,
                   overlapped, tcase, fcase>>

----------------------------------------------------------------------------
(* POST /api/auth/register: register_user -> UserService.create_user *)

\* mutant: the result of the lookup is ignored
CreateUserLookup_Unchecked(p) ==
    /\ req[p].op = "register" /\ req[p].pc = "lookup"
    /\ \E fault \in BOOLEAN :
         req' = [req EXCEPT ![p] = IF fault THEN Raised(@, 500, "Exception")
                                   ELSE [@ EXCEPT !.pc = "insert"]]
    /\ UNCHANGED <<users, notes, issued, clock, nextUid, nextNid, notAuthStatus,
                   overlapped, tcase, fcase>>

\* first round trip of create_user: the lookup by email
\*   a document found  -> ValueError -> 400
\*   the store failing -> Exception  -> 500
CreateUserLookup(p) ==
    /\ req[p].op = "register" /\ req[p].pc = "lookup"
    /\ \E fault \in BOOLEAN :
         /\ req' = [req EXCEPT ![p] =
                IF fault THEN Raised(@, 500, "Exception")
                ELSE IF get_user_by_email(@.email) # {} THEN Finish(@, 400)
                ELSE [@ EXCEPT !.pc = "insert"]]
         /\ overlapped' =
                (overlapped \/ (~fault /\ get_user_by_email(req[p].email) = {}
                                /\ \E q \in Workers \ {p} :
                                     req[q].op = "register" /\ req[q].pc = "insert"))
    /\ UNCHANGED <<users, notes, issued, clock, nextUid, nextNid, notAuthStatus, tcase, fcase>>

\* mutant: the insert is refused when the email is taken by then
CreateUserInsert_Unique(p) ==
    /\ req[p].op = "register" /\ req[p].pc = "insert"
    /\ \E fault \in BOOLEAN :
         IF fault \/ \E u \in users : u.email = req[p].email
         THEN /\ req' = [req EXCEPT ![p] = IF fault THEN Raised(@, 500, "Exception")
                                                 ELSE Finish(@, 400)]
              /\ UNCHANGED <<users, nextUid>>
         ELSE LET doc == user_doc(req[p].email, req[p].password, nextUid + 1) IN
              /\ users' = users \cup {doc}
              /\ nextUid' = nextUid + 1
              /\ req' = [req EXCEPT ![p] = [Finish(@, 201) EXCEPT !.user = Public(doc)]]
    /\ UNCHANGED <<notes, issued, clock, nextNid, notAuthStatus, overlapped, tcase, fcase>>

\* second round trip of create_user: post_document, then the 201 response
CreateUserInsert(p) ==
    /\ req[p].op = "register" /\ req[p].pc = "insert"
    /\ \E fault \in BOOLEAN :
         IF fault
         THEN /\ req' = [req EXCEPT ![p] = Raised(@, 500, "Exception")]
              /\ UNCHANGED <<users, nextUid>>
         ELSE LET doc == user_doc(req[p].email, req[p].password, nextUid + 1) IN
              /\ users' = users \cup {doc}
              /\ nextUid' = nextUid + 1
              /\ req' = [req EXCEPT ![p] = [Finish(@, 201) EXCEPT !.user = Public(doc)]]
    /\ UNCHANGED <<notes, issued, clock, nextNid, notAuthStatus, overlapped, tcase, fcase>>

----------------------------------------------------------------------------
(* POST /api/auth/login: login -> UserService.authenticate_user *)

\* mutant: the active flag is not looked at
authenticate_user_NoActiveCheck(found, password) ==
    {Public(u) : u \in {v \in found : verify_password(password, v.hashed_password)}}

\* mutant: the stored document is returned as it is
authenticate_user_KeepsHash(found, password) ==
    {v \in found : verify_password(password, v.hashed_password) /\ v.is_active}

\* authenticate_user(email, password) when the lookup returned the documents
\* `found` (docs[0] is `u`): the user without its hash, or None ({})
authenticate_user(found, password) ==
    {Public(u) : u \in {v \in found :
                          /\ verify_password(password, v.hashed_password)
                          /\ v.is_active}}

\* the answer of login when authenticate_user returned None
LoginRejected(r) ==
    [Finish(r, 401) EXCEPT !.detail = "Email o contraseña incorrectos",
                           !.www_authenticate = "Bearer"]

\* mutant: an email without a user document gets an answer of its own
Login_TellsUnknown(p) ==
    /\ req[p].op = "login" /\ req[p].pc = "login"
    /\ req' = [req EXCEPT ![p] =
            IF get_user_by_email(req[p].email) = {}
            THEN [Finish(@, 404) EXCEPT !.detail = "Usuario no encontrado"]
            ELSE LoginRejected(@)]
    /\ UNCHANGED <<users, notes, issued, clock, nextUid, nextNid, notAuthStatus,
                   overlapped, tcase, fcase>>

\* mutant: the token is made for the user of the email, whatever the
\* password and the state of the account
Login_NoAuthentication(p) ==
    /\ req[p].op = "login" /\ req[p].pc = "login"
    /\ LET docs == get_user_by_email(req[p].email) IN
       IF docs = {}
       THEN /\ req' = [req EXCEPT ![p] = LoginRejected(@)]
            /\ UNCHANGED issued
       ELSE \E u \in docs :
              LET access_token ==
                      create_access_token([sub |-> u.id, email |-> u.email], clock)
              IN  /\ Cardinality(issued \cup {access_token}) <= MaxTokens
                  /\ issued' = issued \cup {access_token}
                  /\ req' = [req EXCEPT ![p] =
                          [Finish(@, 200) EXCEPT !.user = Public(u),
                                                 !.token = {access_token}]]
    /\ UNCHANGED <<users, notes, clock, nextUid, nextNid, notAuthStatus, overlapped, tcase, fcase>>

\* one round trip (the lookup); a store failure is caught inside
\* authenticate_user and becomes None
Login(p) ==
    /\ req[p].op = "login" /\ req[p].pc = "login"
    /\ \E fault \in BOOLEAN :
         LET docs == IF fault THEN {} ELSE get_user_by_email(req[p].email) IN
         \/ /\ docs = {}
            /\ req' = [req EXCEPT ![p] = IF fault
                                         THEN [LoginRejected(@) EXCEPT !.fault = TRUE]
                                         ELSE LoginRejected(@)]
            /\ UNCHANGED issued
         \/ \E u \in docs :
              LET user == authenticate_user({u}, req[p].password) IN
              IF user = {}
              THEN /\ req' = [req EXCEPT ![p] = LoginRejected(@)]
                   /\ UNCHANGED issued
              ELSE LET usr == CHOOSE x \in user : TRUE
                       access_token ==
                           create_access_token([sub |-> usr.id, email |-> usr.email], clock)
                   IN  /\ Cardinality(issued \cup {access_token}) <= MaxTokens
                       /\ issued' = issued \cup {access_token}
                       /\ req' = [req EXCEPT ![p] =
                               [Finish(@, 200) EXCEPT !.user = usr,
                                                      !.token = {access_token}]]
    /\ UNCHANGED <<users, notes, clock, nextUid, nextNid, notAuthStatus, overlapped, tcase, fcase>>

----------------------------------------------------------------------------
(* Protected endpoints: the dependency runs first, then the handler body *)

BodyOf(op) == IF op = "me" THEN "me" ELSE op

\* mutant: the dependency does not stop the request (auto_error off)
Gate_Optional(p) ==
    /\ req[p].pc = "gate"
    /\ \E fault \in BOOLEAN :
         LET g == get_current_active_user(req[p].hdr, fault) IN
         req' = [req EXCEPT ![p] = [@ EXCEPT !.pc = BodyOf(req[p].op), !.user = g.user]]
    /\ UNCHANGED <<users, notes, issued, clock, nextUid, nextNid, notAuthStatus,
                   overlapped, tcase, fcase>>

\* mutant: the dependency removes the accounts that are not active
Gate_Purges(p) ==
    /\ req[p].pc = "gate"
    /\ \E fault \in BOOLEAN :
         LET g == get_current_active_user(req[p].hdr, fault) IN
         req' = [req EXCEPT ![p] =
                    IF g.ok THEN [@ EXCEPT !.pc = BodyOf(req[p].op), !.user = g.user]
                    ELSE IF g.broken THEN Raised(@, g.status, "ApiException")
                    ELSE Finish(@, g.status)]
    /\ users' = {u \in users : u.is_active}
    /\ UNCHANGED <<notes, issued, clock, nextUid, nextNid, notAuthStatus,
                   overlapped, tcase, fcase>>

Gate(p) ==
    /\ req[p].pc = "gate"
    /\ \E fault \in BOOLEAN :
         LET g == get_current_active_user(req[p].hdr, fault) IN
         req' = [req EXCEPT ![p] =
                    IF g.ok THEN [@ EXCEPT !.pc = BodyOf(req[p].op), !.user = g.user]
                    ELSE IF g.broken THEN Raised(@, g.status, "ApiException")
                    ELSE Finish(@, g.status)]
    /\ UNCHANGED <<users, notes, issued, clock, nextUid, nextNid, notAuthStatus,
                   overlapped, tcase, fcase>>

\* GET /api/auth/me
get_current_user_info(p) ==
    /\ req[p].op = "me" /\ req[p].pc = "me"
    /\ req' = [req EXCEPT ![p] = Finish(@, 200)]
    /\ UNCHANGED <<users, notes, issued, clock, nextUid, nextNid, notAuthStatus,
                   overlapped, tcase, fcase>>

----------------------------------------------------------------------------
(* Environment *)

Tick ==
    /\ clock < MaxTime
    /\ clock' = clock + 1
    /\ UNCHANGED <<users, notes, issued, req, nextUid, nextNid, notAuthStatus,
                   overlapped, tcase, fcase>>

\* reset_users.py: the users database is deleted and created again, empty
reset_users_database ==
    /\ users # {}
    /\ users' = {}
    /\ UNCHANGED <<notes, issued, clock, req, nextUid, nextNid, notAuthStatus,
                   overlapped, tcase, fcase>>

\* an operator clears is_active on a user document (no endpoint does)
Deactivate(u) ==
    /\ u \in users /\ u.is_active
    /\ users' = (users \ {u}) \cup {[u EXCEPT !.is_active = FALSE]}
    /\ UNCHANGED <<notes, issued, clock, req, nextUid, nextNid, notAuthStatus,
                   overlapped, tcase, fcase>>

----------------------------------------------------------------------------
(* The authentication service *)

NoCase ==
    [phase |-> "off", kind |-> "genuine", sub |-> None, email |-> None, issuedAt |-> 0,
     token |-> GarbageToken, verifiedAt |-> 0, result |-> CredentialsException]

\* the function harness at rest
NoCall == [fn |-> "none"]

Init ==
    /\ users = {}
    /\ notes = {}
    /\ issued = {}
    /\ clock = 0
    /\ req = [p \in {1} |-> Idle]
    /\ nextUid = 0
    /\ nextNid = 0
    /\ notAuthStatus \in {401, 403}
    /\ overlapped = FALSE
    /\ tcase = NoCase
    /\ fcase = NoCall

Next ==
    \/ \E p \in Workers, e \in Emails, pw \in Passwords : SubmitRegister(p, e, pw)
    \/ \E p \in Workers, e \in Emails, pw \in Passwords : SubmitLogin(p, e, pw)
    \/ \E p \in Workers, h \in Headers : SubmitMe(p, h)
    \/ \E p \in Workers : CreateUserLookup(p)
    \/ \E p \in Workers : CreateUserInsert(p)
    \/ \E p \in Workers : Login(p)
    \/ \E p \in Workers : Gate(p)
    \/ \E p \in Workers : get_current_user_info(p)
    \/ \E p \in Workers : Respond(p)
    \/ Tick
    \/ reset_users_database
    \/ \E u \in users : Deactivate(u)

Spec == Init /\ [][Next]_vars

\* the same service on a FastAPI whose HTTPBearer answers 401
InitBearer401 == Init /\ notAuthStatus = 401

SpecBearer401 == InitBearer401 /\ [][Next]_vars

----------------------------------------------------------------------------
(* Registration alone, on two workers: create_user against create_user *)

InitReg ==
    /\ users = {}
    /\ notes = {}
    /\ issued = {}
    /\ clock = 0
    /\ req = [p \in {1, 2} |-> Idle]
    /\ nextUid = 0
    /\ nextNid = 0
    /\ notAuthStatus \in {401, 403}
    /\ overlapped = FALSE
    /\ tcase = NoCase
    /\ fcase = NoCall

NextReg ==
    \/ \E p \in Workers, e \in Emails, pw \in Passwords : SubmitRegister(p, e, pw)
    \/ \E p \in Workers : CreateUserLookup(p)
    \/ \E p \in Workers : CreateUserInsert(p)
    \/ \E p \in Workers : Respond(p)
    \/ reset_users_database

SpecReg == InitReg /\ [][NextReg]_vars

----------------------------------------------------------------------------
(* Transcription Client (WatsonSTTService) *)

\* settings.ALLOWED_AUDIO_FORMATS
ALLOWED_AUDIO_FORMATS ==
    {"audio/wav", "audio/mpeg", "audio/mp3", "audio/x-wav",
     "application/octet-stream", "audio/wave", "audio/webm",
     "audio/ogg", "audio/mp4", "audio/x-m4a"}

\* settings.MAX_FILE_SIZE
MAX_FILE_SIZE == 10 * 1024 * 1024

\* "wav" in content_type.lower(), on the content types of the model
ContainsWav(content_type) ==
    content_type \in {"audio/wav", "audio/x-wav", "audio/wave", "AUDIO/WAV"}

\* mutant: mp4 and mpeg are tried before the browser formats
content_types_to_try_Reordered(content_type) ==
    IF ContainsWav(content_type)
    THEN <<content_type, "audio/mp4", "audio/mpeg", "audio/webm",
           "audio/webm;codecs=opus", "audio/ogg;codecs=opus">>
    ELSE <<content_type>>

\* content_types_to_try
content_types_to_try(content_type) ==
    IF ContainsWav(content_type)
    THEN <<content_type, "audio/webm", "audio/webm;codecs=opus",
           "audio/ogg;codecs=opus", "audio/mp4", "audio/mpeg">>
    ELSE <<content_type>>

\* a text is the sequence of its characters
Transcripts == {<<"h", "o", "l", "a", " ", "m", "u", "n", "d", "o">>}

\* messages of the errors recognize() raises
ErrorMessages ==
    {"unable to transcode data stream", "Unable to Transcode data stream", "Forbidden"}

\* error_msg.lower()
LowerMessage(msg) ==
    IF msg = "Unable to Transcode data stream" THEN "unable to transcode data stream"
    ELSE IF msg = "Forbidden" THEN "forbidden"
    ELSE msg

\* mutant: the message is searched as it is, in its own case
MentionsTranscode_CaseSensitive(msg) == msg = "unable to transcode data stream"

\* "transcode" in error_msg.lower()
MentionsTranscode(msg) == LowerMessage(msg) = "unable to transcode data stream"

\* what one recognize() call can come back with:
\*   text   results whose first alternatives join to a non-empty text
\*   blank  results whose alternatives are missing, empty or blank
\*   none   no results
\*   or an error, with its message
Recognitions == {"text", "blank", "none"} \cup ErrorMessages

\* one turn of the loop of transcribe_audio on the request r: recognize()
\* with the next content type comes back with `outcome`.  stt tells whether
\* the call is still trying, has returned `text`, or has raised stt_error
\* (the error of an attempt, inside a new Exception that carries its message)
transcribe_audio(r, outcome, transcript) ==
    LET candidates == content_types_to_try(r.content_type)
        k == r.calls + 1
        q == [r EXCEPT !.calls = k, !.stt = "trying",
                       !.tried = Append(@, candidates[k]),
                       !.outcomes = Append(@, outcome)]
        err == [attempt |-> k, message |-> outcome]
    IN  CASE outcome = "text" -> [q EXCEPT !.stt = "returned", !.text = transcript]
          [] outcome = "blank" -> [q EXCEPT !.stt = "returned", !.text = << >>]
          [] outcome = "none" ->
                IF k < Len(candidates) THEN q
                ELSE IF q.last_error # {}
                     THEN [q EXCEPT !.stt = "raised", !.stt_error = q.last_error]
                     ELSE [q EXCEPT !.stt = "returned", !.text = << >>]
          [] OTHER ->
                IF ~MentionsTranscode(outcome)
                THEN [q EXCEPT !.stt = "raised", !.stt_error = {err}, !.last_error = {err}]
                ELSE IF k < Len(candidates) THEN [q EXCEPT !.last_error = {err}]
                ELSE [q EXCEPT !.stt = "raised", !.stt_error = {err}, !.last_error = {err}]

\* str.split(): the maximal runs of characters that are not whitespace
IsSpace(c) == c \in {" ", "\t"}

RECURSIVE split(_)
split(text) ==
    IF text = << >> THEN << >>
    ELSE IF IsSpace(Head(text)) THEN split(Tail(text))
    ELSE LET n == CHOOSE k \in 1..Len(text) :
                    /\ \A i \in 1..k : ~IsSpace(text[i])
                    /\ (k = Len(text) \/ IsSpace(text[k + 1]))
         IN  <<SubSeq(text, 1, n)>> \o split(SubSeq(text, n + 1, Len(text)))

\* ' '.join(words)
RECURSIVE join(_)
join(words) ==
    IF words = << >> THEN << >>
    ELSE IF Len(words) = 1 THEN Head(words)
    ELSE Head(words) \o <<" ">> \o join(Tail(words))

Placeholder ==
    <<"N", "o", "t", "a", " ", "s", "i", "n", " ", "t", "í", "t", "u", "l", "o">>

\* mutant: the marker is added as soon as the limit is reached
generate_title_EllipsisAtLimit(text, max_words) ==
    IF text = << >> THEN Placeholder
    ELSE LET words == split(text)
             title_words == SubSeq(words, 1, IF Len(words) < max_words
                                             THEN Len(words) ELSE max_words)
         IN  IF Len(words) >= max_words THEN join(title_words) \o <<".", ".", ".">>
             ELSE join(title_words)

\* generate_title(text, max_words), max_words >= 0
generate_title(text, max_words) ==
    IF text = << >> THEN Placeholder
    ELSE LET words == split(text)
             title_words == SubSeq(words, 1, IF Len(words) < max_words
                                             THEN Len(words) ELSE max_words)
             title == join(title_words)
         IN  IF Len(words) > max_words THEN title \o <<".", ".", ".">> ELSE title

----------------------------------------------------------------------------
(* Note Store (CloudantService) *)

\* ids and first revisions the transcriptions database assigns
NoteId(n) == "n" \o ToString(n)
FirstRev(n) == "1-" \o ToString(n)

\* the revision of generation g of the n-th document
Rev(g, n) == ToString(g) \o "-" \o ToString(n)

NoteIds == {NoteId(n) : n \in 1..MaxNotes}

\* the document save_transcription posts, as the store keeps it
note_doc(titulo, texto, user_id, audio_format, audio_size, n) ==
    [id |-> NoteId(n), rev |-> FirstRev(n), user_id |-> user_id, titulo |-> titulo,
     texto |-> texto, audio_format |-> audio_format, audio_size |-> audio_size]

\* get_transcription: get_document; the documents with that id (none: the
\* store answers 404 and the SDK raises ApiException)
get_transcription(doc_id) == {n \in notes : n.id = doc_id}

\* mutant: the selector does not filter on user_id
list_transcriptions_AllUsers(user_id, limit) ==
    {docs \in SUBSET notes :
        Cardinality(docs) = IF Cardinality(notes) < limit
                            THEN Cardinality(notes) ELSE limit}

\* list_transcriptions(user_id, limit): what post_find may return, in a
\* store-defined order: any `limit` of the matching documents, or all of them
list_transcriptions(user_id, limit) ==
    LET matching == {n \in notes : n.user_id = user_id} IN
    {docs \in SUBSET matching :
        Cardinality(docs) = IF Cardinality(matching) < limit
                            THEN Cardinality(matching) ELSE limit}

----------------------------------------------------------------------------
(* Protected note endpoints *)

SubmitTranscribe(p, hdr, content_type, size) ==
    /\ req[p].pc = "idle"
    /\ nextNid < MaxNotes
    /\ req' = [req EXCEPT ![p] = [Idle EXCEPT !.op = "transcribe", !.pc = "gate",
                    !.hdr = hdr, !.content_type = content_type, !.size = size]]
    /\ UNCHANGED <<users, notes, issued, clock, nextUid, nextNid, notAuthStatus,
                   overlapped, tcase, fcase>>

SubmitList(p, hdr, limit) ==
    /\ req[p].pc = "idle"
    /\ req' = [req EXCEPT ![p] = [Idle EXCEPT !.op = "list", !.pc = "gate",
                                              !.hdr = hdr, !.limit = limit]]
    /\ UNCHANGED <<users, notes, issued, clock, nextUid, nextNid, notAuthStatus,
                   overlapped, tcase, fcase>>

SubmitGet(p, hdr, note_id) ==
    /\ req[p].pc = "idle"
    /\ req' = [req EXCEPT ![p] = [Idle EXCEPT !.op = "get", !.pc = "gate",
                                              !.hdr = hdr, !.note_id = note_id]]
    /\ UNCHANGED <<users, notes, issued, clock, nextUid, nextNid, notAuthStatus,
                   overlapped, tcase, fcase>>

SubmitDelete(p, hdr, note_id) ==
    /\ req[p].pc = "idle"
    /\ req' = [req EXCEPT ![p] = [Idle EXCEPT !.op = "delete", !.pc = "gate",
                                              !.hdr = hdr, !.note_id = note_id]]
    /\ UNCHANGED <<users, notes, issued, clock, nextUid, nextNid, notAuthStatus,
                   overlapped, tcase, fcase>>

\* mutant: the size limit is one byte too high
TranscribeValidate_SizeOffByOne(p) ==
    /\ req[p].op = "transcribe" /\ req[p].pc = "transcribe"
    /\ req' = [req EXCEPT ![p] =
            IF @.content_type \notin ALLOWED_AUDIO_FORMATS THEN Finish(@, 400)
            ELSE IF @.size > MAX_FILE_SIZE + 1 THEN Finish(@, 400)
            ELSE [@ EXCEPT !.pc = "recognize"]]
    /\ UNCHANGED <<users, notes, issued, clock, nextUid, nextNid, notAuthStatus,
                   overlapped, tcase, fcase>>

\* POST /api/transcribe, up to the call of the speech service: the content
\* type and the size are checked
TranscribeValidate(p) ==
    /\ req[p].op = "transcribe" /\ req[p].pc = "transcribe"
    /\ req' = [req EXCEPT ![p] =
            IF @.content_type \notin ALLOWED_AUDIO_FORMATS THEN Finish(@, 400)
            ELSE IF @.size > MAX_FILE_SIZE THEN Finish(@, 400)
            ELSE [@ EXCEPT !.pc = "recognize"]]
    /\ UNCHANGED <<users, notes, issued, clock, nextUid, nextNid, notAuthStatus,
                   overlapped, tcase, fcase>>

\* one turn of the loop of WatsonSTTService.transcribe_audio: a recognize()
\* call with the next content type, and, once transcribe_audio has returned
\* or raised, what the handler does.  The handler's `if not texto_transcrito:
\* raise HTTPException(400)` stands inside `try ... except Exception`, which
\* turns it into a 500.
Recognize(p) ==
    /\ req[p].op = "transcribe" /\ req[p].pc = "recognize"
    /\ \E outcome \in Recognitions, transcript \in Transcripts :
         LET q == transcribe_audio(req[p], outcome, transcript) IN
         req' = [req EXCEPT ![p] =
                    IF q.stt = "trying" THEN q
                    ELSE IF q.stt = "raised" THEN Broken(q, 500)
                    ELSE IF q.text = << >> THEN Finish(q, 500)
                    ELSE [q EXCEPT !.pc = "save"]]
    /\ UNCHANGED <<users, notes, issued, clock, nextUid, nextNid, notAuthStatus,
                   overlapped, tcase, fcase>>

\* mutant: the document is saved without the user's id
TranscribeSave_Anonymous(p) ==
    /\ req[p].op = "transcribe" /\ req[p].pc = "save"
    /\ LET titulo == generate_title(req[p].text, 5)
           doc == note_doc(titulo, req[p].text, None,
                           req[p].content_type, req[p].size, nextNid + 1)
       IN  /\ notes' = notes \cup {doc}
           /\ nextNid' = nextNid + 1
           /\ req' = [req EXCEPT ![p] =
                 Finish([@ EXCEPT !.ops = @ + 1, !.note_id = doc.id], 200)]
    /\ UNCHANGED <<users, issued, clock, nextUid, notAuthStatus, overlapped, tcase, fcase>>

\* generate_title, save_transcription and the response
TranscribeSave(p) ==
    /\ req[p].op = "transcribe" /\ req[p].pc = "save"
    /\ \E fault \in BOOLEAN :
         IF fault
         THEN /\ req' = [req EXCEPT ![p] = Raised([@ EXCEPT !.ops = @ + 1], 500, "Exception")]
              /\ UNCHANGED <<notes, nextNid>>
         ELSE LET titulo == generate_title(req[p].text, 5)
                  doc == note_doc(titulo, req[p].text, req[p].user.id,
                                  req[p].content_type, req[p].size, nextNid + 1)
              IN  /\ notes' = notes \cup {doc}
                  /\ nextNid' = nextNid + 1
                  /\ req' = [req EXCEPT ![p] =
                        Finish([@ EXCEPT !.ops = @ + 1, !.note_id = doc.id], 200)]
    /\ UNCHANGED <<users, issued, clock, nextUid, notAuthStatus, overlapped, tcase, fcase>>

\* GET /api/notes
get_all_notes(p) ==
    /\ req[p].op = "list" /\ req[p].pc = "list"
    /\ \E fault \in BOOLEAN :
         IF fault
         THEN req' = [req EXCEPT ![p] = Raised([@ EXCEPT !.ops = @ + 1], 500, "ApiException")]
         ELSE \E docs \in list_transcriptions(req[p].user.id, req[p].limit) :
                req' = [req EXCEPT ![p] =
                            Finish([@ EXCEPT !.ops = @ + 1, !.listed = docs], 200)]
    /\ UNCHANGED <<users, notes, issued, clock, nextUid, nextNid, notAuthStatus,
                   overlapped, tcase, fcase>>

\* mutant: the owner of the document is not compared with the caller
AfterRead_NoOwnerCheck(r, fault) ==
    LET found == get_transcription(r.note_id)
        q == [r EXCEPT !.ops = @ + 1]
    IN  IF fault THEN Raised(q, 500, "ApiException")
        ELSE IF found = {} THEN [Finish(q, 500) EXCEPT !.error = "ApiException"]
        ELSE [q EXCEPT !.note = {CHOOSE n \in found : TRUE}]

\* what get_note_by_id and delete_note do with the outcome of their read:
\* an exception (a store failure, or the 404 of a missing document) -> 500,
\* a document of another user -> 403, else go on with the document
AfterRead(r, fault) ==
    LET found == get_transcription(r.note_id)
        q == [r EXCEPT !.ops = @ + 1]
    IN  IF fault THEN Raised(q, 500, "ApiException")
        ELSE IF found = {} THEN [Finish(q, 500) EXCEPT !.error = "ApiException"]
        ELSE LET note == CHOOSE n \in found : TRUE IN
             IF note.user_id # q.user.id THEN Finish(q, 403)
             ELSE [q EXCEPT !.note = {note}]

\* GET /api/notes/{note_id}
get_note_by_id(p) ==
    /\ req[p].op = "get" /\ req[p].pc = "get"
    /\ \E fault \in BOOLEAN :
         LET r == AfterRead(req[p], fault) IN
         req' = [req EXCEPT ![p] = IF r.pc = "done" THEN r ELSE Finish(r, 200)]
    /\ UNCHANGED <<users, notes, issued, clock, nextUid, nextNid, notAuthStatus,
                   overlapped, tcase, fcase>>

\* mutant: the owner is not compared before the delete
DeleteRead_NoOwnership(p) ==
    /\ req[p].op = "delete" /\ req[p].pc = "delete"
    /\ \E fault \in BOOLEAN :
         LET r == AfterRead(req[p], fault)
             found == get_transcription(req[p].note_id)
         IN  req' = [req EXCEPT ![p] =
                IF fault \/ found = {} THEN r
                ELSE [@ EXCEPT !.ops = @ + 1, !.note = found, !.pc = "delete_document"]]
    /\ UNCHANGED <<users, notes, issued, clock, nextUid, nextNid, notAuthStatus,
                   overlapped, tcase, fcase>>

\* DELETE /api/notes/{note_id}, first round trip: the read and the checks
DeleteRead(p) ==
    /\ req[p].op = "delete" /\ req[p].pc = "delete"
    /\ \E fault \in BOOLEAN :
         LET r == AfterRead(req[p], fault) IN
         req' = [req EXCEPT ![p] = IF r.pc = "done" THEN r
                                   ELSE [r EXCEPT !.pc = "delete_document"]]
    /\ UNCHANGED <<users, notes, issued, clock, nextUid, nextNid, notAuthStatus,
                   overlapped, tcase, fcase>>

\* what the store answers to delete_document(doc_id, rev): 200 if rev is
\* the current revision of the document, 409 (conflict) if it is not, 404
\* or 409 if the document is gone, 503 if the store fails (`fault`)
delete_document(doc_id, rev, fault, gone) ==
    LET docs == {n \in notes : n.id = doc_id} IN
    IF fault THEN 503
    ELSE IF docs = {} THEN gone
    ELSE IF \A n \in docs : n.rev # rev THEN 409
    ELSE 200

\* mutant: deleting a document that is gone counts as done
DeleteDocument_Idempotent(p) ==
    /\ req[p].op = "delete" /\ req[p].pc = "delete_document"
    /\ LET read == CHOOSE n \in req[p].note : TRUE
           docs == {n \in notes : n.id = req[p].note_id}
           q == [req[p] EXCEPT !.ops = @ + 1, !.rev_passed = {read.rev},
                               !.store_status = 200]
       IN  /\ notes' = notes \ {n \in docs : n.rev = read.rev}
           /\ req' = [req EXCEPT ![p] =
                   IF docs # {} /\ \A n \in docs : n.rev # read.rev
                   THEN Raised([q EXCEPT !.store_status = 409], 500, "Exception")
                   ELSE Finish(q, 200)]
    /\ UNCHANGED <<users, issued, clock, nextUid, nextNid, notAuthStatus,
                   overlapped, tcase, fcase>>

\* DELETE /api/notes/{note_id}, second round trip: delete_transcription with
\* the revision that was read.  The store removes the document if that is
\* its current revision; any other answer is raised as a new Exception,
\* which ends the request 500.
DeleteDocument(p) ==
    /\ req[p].op = "delete" /\ req[p].pc = "delete_document"
    /\ \E fault \in BOOLEAN, gone \in {404, 409} :
         LET read == CHOOSE n \in req[p].note : TRUE
             answer == delete_document(req[p].note_id, read.rev, fault, gone)
             q == [req[p] EXCEPT !.ops = @ + 1, !.rev_passed = {read.rev},
                                 !.store_status = answer]
         IN  IF answer # 200
             THEN /\ req' = [req EXCEPT ![p] = Raised(q, 500, "Exception")]
                  /\ UNCHANGED notes
             ELSE /\ notes' = {n \in notes : n.id # req[p].note_id}
                  /\ req' = [req EXCEPT ![p] = Finish(q, 200)]
    /\ UNCHANGED <<users, issued, clock, nextUid, nextNid, notAuthStatus,
                   overlapped, tcase, fcase>>

----------------------------------------------------------------------------
(* The note endpoints, on a service that has been running: three users     *)
(* registered, one of them deactivated since, and tokens that login        *)
(* handed out: a fresh one per user, an old one, and one of a user whose   *)
(* document is gone.                                                       *)

Ana == user_doc("ana@x.pe", <<1, 2, 3, 4, 5, 6>>, 1)
Beto == user_doc("beto@x.pe", <<1, 2, 3, 4, 5, 7>>, 2)
Caro == [user_doc("caro@x.pe", <<1, 2, 3, 4, 5, 6>>, 3) EXCEPT !.is_active = FALSE]
Gone == user_doc("dani@x.pe", <<1, 2, 3, 4, 5, 6>>, 4)

TokenFor(u, now) == create_access_token([sub |-> u.id, email |-> u.email], now)

NotesInit ==
    /\ users = {Ana, Beto, Caro}
    /\ notes = {}
    /\ issued = {TokenFor(Ana, MaxTime - 1), TokenFor(Beto, MaxTime - 1),
                 TokenFor(Caro, MaxTime - 1), TokenFor(Gone, MaxTime - 1),
                 TokenFor(Ana, 0)}
    /\ clock = MaxTime
    /\ req = [p \in {1} |-> Idle]
    /\ nextUid = 4
    /\ nextNid = 0
    /\ notAuthStatus \in {401, 403}
    /\ overlapped = FALSE
    /\ tcase = NoCase
    /\ fcase = NoCall

\* the headers clients send to the note endpoints
NoteHeaders ==
    {NoHeader}
    \cup {BearerHeader(t) : t \in issued}
    \cup {BearerHeader(JwtEncode([sub |-> Ana.id, email |-> Ana.email, exp |-> MaxTime],
                                 OtherSecret))}

ContentTypes == {"audio/wav", "audio/mpeg", "video/mp4"}
Sizes == {MAX_FILE_SIZE, MAX_FILE_SIZE + 1}
Limits == {0, 1, 100}

NotesNext ==
    \/ \E p \in Workers, h \in NoteHeaders, ct \in ContentTypes, sz \in Sizes :
            SubmitTranscribe(p, h, ct, sz)
    \/ \E p \in Workers, h \in NoteHeaders, l \in Limits : SubmitList(p, h, l)
    \/ \E p \in Workers, h \in NoteHeaders, id \in NoteIds : SubmitGet(p, h, id)
    \/ \E p \in Workers, h \in NoteHeaders, id \in NoteIds : SubmitDelete(p, h, id)
    \/ \E p \in Workers : Gate(p)
    \/ \E p \in Workers : TranscribeValidate(p)
    \/ \E p \in Workers : Recognize(p)
    \/ \E p \in Workers : TranscribeSave(p)
    \/ \E p \in Workers : get_all_notes(p)
    \/ \E p \in Workers : get_note_by_id(p)
    \/ \E p \in Workers : DeleteRead(p)
    \/ \E p \in Workers : DeleteDocument(p)
    \/ \E p \in Workers : Respond(p)

SpecNotes == NotesInit /\ [][NotesNext]_vars

----------------------------------------------------------------------------
(* WatsonSTTService.transcribe_audio alone, called with any content type *)

SpeechContentTypes ==
    {"audio/wav", "AUDIO/WAV", "audio/x-wav", "audio/wave", "audio/mpeg", "audio/webm"}

SpeechInit ==
    /\ users = {}
    /\ notes = {}
    /\ issued = {}
    /\ clock = 0
    /\ req = [p \in {1} |-> Idle]
    /\ nextUid = 0
    /\ nextNid = 0
    /\ notAuthStatus = 401
    /\ overlapped = FALSE
    /\ tcase = NoCase
    /\ fcase = NoCall

\* transcribe_audio(audio_file, content_type) is called
SpeechCall(p, content_type) ==
    /\ req[p].pc = "idle"
    /\ req' = [req EXCEPT ![p] = [Idle EXCEPT !.op = "transcribe_audio",
                    !.pc = "recognize", !.content_type = content_type]]
    /\ UNCHANGED <<users, notes, issued, clock, nextUid, nextNid, notAuthStatus,
                   overlapped, tcase, fcase>>

\* one turn of its loop; the call is over once it has returned or raised
SpeechAttempt(p) ==
    /\ req[p].op = "transcribe_audio" /\ req[p].pc = "recognize"
    /\ \E outcome \in Recognitions, transcript \in Transcripts :
         LET q == transcribe_audio(req[p], outcome, transcript) IN
         req' = [req EXCEPT ![p] = IF q.stt = "trying" THEN q
                                   ELSE [q EXCEPT !.pc = "done"]]
    /\ UNCHANGED <<users, notes, issued, clock, nextUid, nextNid, notAuthStatus,
                   overlapped, tcase, fcase>>

SpeechNext ==
    \/ \E p \in Workers, ct \in SpeechContentTypes : SpeechCall(p, ct)
    \/ \E p \in Workers : SpeechAttempt(p)
    \/ \E p \in Workers : Respond(p)

SpecSpeech == SpeechInit /\ [][SpeechNext]_vars

----------------------------------------------------------------------------
(* Deletes against deletes, on two workers: Ana and Beto each have a note  *)
(* in the store, and the store is also written by other clients, which     *)
(* gives a document a new revision                                         *)

MaxRevision == 2     \* generations of revisions of a document

DeleteInit ==
    /\ users = {Ana, Beto}
    /\ notes = {note_doc(generate_title(t, 5), t, Ana.id, "audio/wav", 1024, 1)
                    : t \in Transcripts}
               \cup {note_doc(generate_title(t, 5), t, Beto.id, "audio/mpeg", 1024, 2)
                    : t \in Transcripts}
    /\ issued = {TokenFor(Ana, MaxTime - 1), TokenFor(Beto, MaxTime - 1)}
    /\ clock = MaxTime
    /\ req = [p \in {1, 2} |-> Idle]
    /\ nextUid = 2
    /\ nextNid = 2
    /\ notAuthStatus \in {401, 403}
    /\ overlapped = FALSE
    /\ tcase = NoCase
    /\ fcase = NoCall

\* another client of the database updates the document: the store gives it
\* its next revision
NoteRevised(n) ==
    /\ n \in notes
    /\ \E g \in 1..(MaxRevision - 1), k \in 1..MaxNotes :
         /\ n.rev = Rev(g, k)
         /\ notes' = (notes \ {n}) \cup {[n EXCEPT !.rev = Rev(g + 1, k)]}
    /\ UNCHANGED <<users, issued, clock, req, nextUid, nextNid, notAuthStatus,
                   overlapped, tcase, fcase>>

DeleteNext ==
    \/ \E p \in Workers, t \in issued, id \in NoteIds : SubmitDelete(p, BearerHeader(t), id)
    \/ \E p \in Workers : Gate(p)
    \/ \E p \in Workers : DeleteRead(p)
    \/ \E p \in Workers : DeleteDocument(p)
    \/ \E p \in Workers : Respond(p)
    \/ \E n \in notes : NoteRevised(n)

SpecDelete == DeleteInit /\ [][DeleteNext]_vars

----------------------------------------------------------------------------
(* The token functions alone: create_access_token, what a client may do to *)
(* the token it holds, verify_token at a later instant                     *)

Subjects == {UserId(1), UserId(2)}

TokenInit ==
    /\ users = {}
    /\ notes = {}
    /\ issued = {}
    /\ clock = 0
    /\ req = [p \in {1} |-> Idle]
    /\ nextUid = 0
    /\ nextNid = 0
    /\ notAuthStatus \in {401, 403}
    /\ overlapped = FALSE
    /\ tcase = [NoCase EXCEPT !.phase = "start"]
    /\ fcase = NoCall

\* create_access_token(data={"sub": sub, "email": email}); sub = None is a
\* payload without the "sub" key
TokenIssue(sub, email) ==
    /\ tcase.phase = "start"
    /\ tcase' = [phase |-> "held", kind |-> "genuine", sub |-> sub, email |-> email,
                 issuedAt |-> clock,
                 token |-> create_access_token([sub |-> sub, email |-> email], clock),
                 verifiedAt |-> 0, result |-> CredentialsException]
    /\ UNCHANGED <<users, notes, issued, clock, req, nextUid, nextNid, notAuthStatus,
                   overlapped, fcase>>

\* the holder presents something else than the token it was given: the same
\* payload signed with another secret, the payload with a later expiry
\* under the old signature, or a string that is no JWT
TokenAlter(kind) ==
    /\ tcase.phase = "held" /\ tcase.kind = "genuine"
    /\ tcase' = [tcase EXCEPT
            !.kind = kind,
            !.token = CASE kind = "resigned" -> JwtEncode(tcase.token.payload, OtherSecret)
                        [] kind = "tampered" -> [tcase.token EXCEPT !.payload.exp = MaxTime]
                        [] OTHER -> GarbageToken]
    /\ UNCHANGED <<users, notes, issued, clock, req, nextUid, nextNid, notAuthStatus,
                   overlapped, fcase>>

TokenVerify ==
    /\ tcase.phase = "held"
    /\ tcase' = [tcase EXCEPT !.phase = "verified", !.verifiedAt = clock,
                              !.result = verify_token(tcase.token, clock)]
    /\ UNCHANGED <<users, notes, issued, clock, req, nextUid, nextNid, notAuthStatus,
                   overlapped, fcase>>

TokenDrop ==
    /\ tcase.phase = "verified"
    /\ tcase' = [NoCase EXCEPT !.phase = "start"]
    /\ UNCHANGED <<users, notes, issued, clock, req, nextUid, nextNid, notAuthStatus,
                   overlapped, fcase>>

TokenNext ==
    \/ \E sub \in Subjects \cup {None}, e \in Emails : TokenIssue(sub, e)
    \/ \E k \in {"resigned", "tampered", "garbage"} : TokenAlter(k)
    \/ TokenVerify
    \/ TokenDrop
    \/ Tick

SpecToken == TokenInit /\ [][TokenNext]_vars

----------------------------------------------------------------------------
(* The password functions alone: hash_password (directly, or as create_user *)
(* calls it, after its own truncation), then verify_password               *)

Ascii(n, b) == [i \in 1..n |-> b]

\* passwords around the 72-byte limit: short ones, exactly 72 bytes, longer
\* ones that agree or differ within the first 72 bytes, and ones whose 72nd
\* byte falls inside a two- or three-byte character
HarnessPasswords ==
    {<<1, 2, 3, 4, 5, 6>>, <<1, 2, 3, 4, 5, 7>>,
     Ascii(71, 97), Ascii(72, 97),
     Ascii(72, 97) \o <<98>>, Ascii(72, 97) \o <<99, 100>>,
     Ascii(71, 97) \o <<98, 97>>,
     LongPassword, Ascii(71, 97) \o <<195, 170>>,
     Ascii(71, 97) \o <<195, 169, 98>>,
     Ascii(70, 97) \o <<195, 169>>, Ascii(70, 97) \o <<195, 169, 98>>,
     Ascii(70, 97), Ascii(70, 97) \o <<226, 130, 172>>}

PasswordInit ==
    /\ users = {}
    /\ notes = {}
    /\ issued = {}
    /\ clock = 0
    /\ req = [p \in {1} |-> Idle]
    /\ nextUid = 0
    /\ nextNid = 0
    /\ notAuthStatus \in {401, 403}
    /\ overlapped = FALSE
    /\ tcase = NoCase
    /\ fcase = NoCall

\* hash_password(p), or the hash create_user stores for p
PasswordHash(p, caller) ==
    /\ fcase.fn = "none"
    /\ fcase' = [fn |-> "hash_password", caller |-> caller, p |-> p,
                 hashed |-> IF caller = "create_user"
                            THEN user_doc("ana@x.pe", p, 1).hashed_password
                            ELSE hash_password(p)]
    /\ UNCHANGED <<users, notes, issued, clock, req, nextUid, nextNid, notAuthStatus,
                   overlapped, tcase>>

\* verify_password(q, hashed)
PasswordVerify(q) ==
    /\ fcase.fn = "hash_password"
    /\ fcase' = [fn |-> "verify_password", caller |-> fcase.caller, p |-> fcase.p,
                 hashed |-> fcase.hashed, q |-> q,
                 result |-> verify_password(q, fcase.hashed)]
    /\ UNCHANGED <<users, notes, issued, clock, req, nextUid, nextNid, notAuthStatus,
                   overlapped, tcase>>

FunctionReturn ==
    /\ fcase.fn \notin {"none", "hash_password"}
    /\ fcase' = NoCall
    /\ UNCHANGED <<users, notes, issued, clock, req, nextUid, nextNid, notAuthStatus,
                   overlapped, tcase>>

PasswordNext ==
    \/ \E p \in HarnessPasswords, c \in {"hash_password", "create_user"} : PasswordHash(p, c)
    \/ \E q \in HarnessPasswords : PasswordVerify(q)
    \/ FunctionReturn

SpecPassword == PasswordInit /\ [][PasswordNext]_vars

----------------------------------------------------------------------------
(* generate_title alone, on texts written from known words and whitespace *)

MaxTitleWords == 6   \* words in a text

TitleWords == {<<"a">>, <<"b", "c">>}
TitleGaps == {<<" ">>, <<" ", "\t">>}
TitleMargins == {<< >>, <<" ">>}
TitleLimits == {0, 1, 2, 5}

\* the words with `gap` between each two of them
RECURSIVE Spread(_, _)
Spread(tokens, gap) ==
    IF tokens = << >> THEN << >>
    ELSE IF Len(tokens) = 1 THEN tokens[1]
    ELSE Spread(SubSeq(tokens, 1, Len(tokens) - 1), gap) \o gap \o tokens[Len(tokens)]

TitleInit ==
    /\ users = {}
    /\ notes = {}
    /\ issued = {}
    /\ clock = 0
    /\ req = [p \in {1} |-> Idle]
    /\ nextUid = 0
    /\ nextNid = 0
    /\ notAuthStatus \in {401, 403}
    /\ overlapped = FALSE
    /\ tcase = NoCase
    /\ fcase = NoCall

\* generate_title(text, max_words) on the text made of `tokens`
TitleCall(tokens, lead, gap, trail, max_words) ==
    /\ fcase.fn = "none"
    /\ LET text == lead \o Spread(tokens, gap) \o trail IN
       fcase' = [fn |-> "generate_title", tokens |-> tokens, text |-> text,
                 max_words |-> max_words,
                 result |-> generate_title(text, max_words)]
    /\ UNCHANGED <<users, notes, issued, clock, req, nextUid, nextNid, notAuthStatus,
                   overlapped, tcase>>

TitleNext ==
    \/ \E n \in 0..MaxTitleWords :
         \E tokens \in [1..n -> TitleWords], lead \in TitleMargins, gap \in TitleGaps,
            trail \in TitleMargins, max_words \in TitleLimits :
                TitleCall(tokens, lead, gap, trail, max_words)
    \/ FunctionReturn

SpecTitle == TitleInit /\ [][TitleNext]_vars

----------------------------------------------------------------------------
(* Properties *)

\* the header carries no usable bearer credentials: it is absent, has
\* another scheme, or has no token after the scheme
Unusable(hdr) ==
    \/ ~hdr.present
    \/ hdr.scheme \notin {"Bearer", "bearer"}
    \/ hdr.credentials = {}

\* worker p leaves the gate in this step
GateStep(p) == req[p].pc = "gate" /\ req'[p].pc # "gate"

\* the token of a bearer header
TokenOf(hdr) == CHOOSE t \in hdr.credentials : TRUE

\* a token the server signed and that has not expired on the server's clock
Genuine(hdr) ==
    /\ ~Unusable(hdr)
    /\ TokenOf(hdr).fmt = "jws"
    /\ TokenOf(hdr).sig = [key |-> JWT_SECRET_KEY, payload |-> TokenOf(hdr).payload]
    /\ TokenOf(hdr).payload.sub # None
    /\ TokenOf(hdr).payload.exp >= clock \div TicksPerSecond

\* worker p completes the read of get_note_by_id or delete_note in this step
ReadStep(p) ==
    /\ req[p].op \in {"get", "delete"}
    /\ req[p].pc = req[p].op
    /\ req'[p].pc # req[p].pc

\* C1: when an authenticated user asks for, or asks to delete, a note that
\* is in the store and belongs to another user, the request ends 403 (not
\* 404) without the document, the delete is never issued, and the note
\* store is unchanged.  (A read that fails in the store ends 500.)
C1_OtherUsersNoteForbidden ==
    [][\A p \in Workers :
        (ReadStep(p) /\ \E n \in notes : n.id = req[p].note_id
                                         /\ n.user_id # req[p].user.id) =>
            /\ req'[p].pc = "done"
            /\ req'[p].status = IF req'[p].fault THEN 500 ELSE 403
            /\ req'[p].note = {}
            /\ notes' = notes]_vars

\* C1 witness: a delete by a user who is not the owner was answered 403 and
\* the note is still in the store
C1_Witness ==
    \E p \in Workers :
        /\ req[p].op = "delete" /\ req[p].pc = "done" /\ req[p].status = 403
        /\ \E u \in users : u.id = req[p].user.id
        /\ \E n \in notes : n.id = req[p].note_id /\ n.user_id # req[p].user.id

C3_MissingCredentialsUnauthorized ==
    \A p \in Workers :
        (req[p].op = "me" /\ Unusable(req[p].hdr)) =>
            /\ req[p].pc \in {"gate", "done"}
            /\ (req[p].pc = "done" => req[p].status = 401)

\* ticks a token lives: the configured lifetime
LifetimeTicks == JWT_ACCESS_TOKEN_EXPIRE_SECONDS * TicksPerSecond

\* C4: a token made by create_access_token for a subject id and an email,
\* verified under the same secret at any instant before issue time +
\* lifetime, yields exactly that subject id and email.
C4_IssueVerifyRoundTrip ==
    (/\ tcase.phase = "verified" /\ tcase.kind = "genuine" /\ tcase.sub # None
     /\ tcase.verifiedAt < tcase.issuedAt + LifetimeTicks)
        => /\ tcase.result.ok
           /\ tcase.result.user_id = tcase.sub
           /\ tcase.result.email = tcase.email

\* C4 witness: issued in one second, verified in a later one, still within
\* the lifetime, and accepted
C4_Witness ==
    /\ tcase.phase = "verified" /\ tcase.kind = "genuine" /\ tcase.sub # None
    /\ tcase.verifiedAt < tcase.issuedAt + LifetimeTicks
    /\ tcase.verifiedAt \div TicksPerSecond > tcase.issuedAt \div TicksPerSecond
    /\ tcase.result.ok

\* the server's clock, in whole seconds as jose reads it, is past the exp
\* the token was given
Expired ==
    tcase.verifiedAt \div TicksPerSecond
        > (tcase.issuedAt + LifetimeTicks) \div TicksPerSecond

C6_GateRereadsUser ==
    [][\A p \in Workers :
        (GateStep(p) /\ Genuine(req[p].hdr)) =>
            LET sub == TokenOf(req[p].hdr).payload.sub
                live == {u \in users : u.id = sub}
            IN  /\ (live = {} =>
                        /\ req'[p].pc = "done"
                        /\ req'[p].status = IF req'[p].fault THEN 500 ELSE 401)
                /\ (live # {} /\ \A u \in live : ~u.is_active) =>
                        /\ req'[p].pc = "done"
                        /\ req'[p].status = IF req'[p].fault THEN 500 ELSE 400
                /\ (req'[p].pc # "done" =>
                        \E u \in live : u.is_active /\ req'[p].user.id = u.id)]_vars

\* C6 witness: a token that login issued and that is still valid is refused
\* because its user is no longer in the database
C6_Witness ==
    \E p \in Workers :
        /\ req[p].op = "me" /\ req[p].pc = "done" /\ req[p].status = 401
        /\ Genuine(req[p].hdr)
        /\ TokenOf(req[p].hdr) \in issued
        /\ ~\E u \in users : u.id = TokenOf(req[p].hdr).payload.sub

\* C7: every authentication failure at the gate (missing credentials,
\* invalid token, subject not found, inactive account) is answered 401.
\* GET /api/auth/me has no other way to fail than the gate; a request whose
\* store read failed is not an authentication failure.
C7_GateFailuresAre401 ==
    \A p \in Workers :
        (req[p].op = "me" /\ req[p].pc = "done" /\ req[p].status # 200 /\ ~req[p].fault)
            => req[p].status = 401

\* worker p completes the lookup of create_user in this step
LookupStep(p) ==
    req[p].op = "register" /\ req[p].pc = "lookup" /\ req'[p].pc # "lookup"

\* worker p completes the insert of create_user in this step
InsertStep(p) ==
    req[p].op = "register" /\ req[p].pc = "insert" /\ req'[p].pc # "insert"

\* C8: create_user for an email that already has a user document fails with
\* the duplicate error (400 from the register route; 500 if the lookup
\* itself fails), goes no further, and leaves the users database as it was.
C8_DuplicateEmailRejected ==
    [][\A p \in Workers :
        (LookupStep(p) /\ \E u \in users : u.email = req[p].email) =>
            /\ req'[p].pc = "done"
            /\ req'[p].status = IF req'[p].fault THEN 500 ELSE 400
            /\ users' = users
            /\ nextUid' = nextUid]_vars

\* C8 witness: a registration was refused with 400 and the document that
\* holds the email is still there
C8_Witness ==
    \E p \in Workers :
        /\ req[p].op = "register" /\ req[p].pc = "done" /\ req[p].status = 400
        /\ \E u \in users : u.email = req[p].email

\* C9: as long as no create_user has done its lookup while another one was
\* between its lookup and its insert, the users database holds at most one
\* document per email.
C9_SerialRegistrationsUnique ==
    ~overlapped => \A u, v \in users : u.email = v.email => u = v

\* C9 witness: registrations that did not overlap filled the database, and
\* a later one for a taken email was refused
C9_Witness ==
    /\ ~overlapped
    /\ Cardinality(users) = 2
    /\ \E p \in Workers :
        /\ req[p].op = "register" /\ req[p].pc = "done" /\ req[p].status = 400

\* C10: once create_user has passed its lookup, its insert adds a document
\* with its email whatever the database holds by then (only a store failure
\* stops it), so two calls that both passed the lookup both insert.
C10_InsertDoesNotRecheck ==
    [][\A p \in Workers :
        InsertStep(p) =>
            \/ /\ req'[p].fault /\ req'[p].status = 500
               /\ users' = users
            \/ /\ ~req'[p].fault /\ req'[p].status = 201
               /\ \E d \in users' \ users :
                    /\ d.email = req[p].email
                    /\ users' = users \cup {d}
                    /\ req'[p].user.id = d.id]_vars

\* C10 witness: both workers registered the same email, both were answered
\* 201, and the database holds two documents with that email
C10_Witness ==
    /\ overlapped
    /\ \A p \in Workers :
        req[p].op = "register" /\ req[p].pc = "done" /\ req[p].status = 201
    /\ \E u, v \in users :
        /\ u # v /\ u.email = v.email
        /\ \A p \in Workers : req[p].email = u.email /\ req[p].user.id \in {u.id, v.id}

\* worker p completes the login handler in this step
LoginStep(p) ==
    req[p].op = "login" /\ req[p].pc = "login" /\ req'[p].pc = "done"

\* C11: when the users database holds the document a successful create_user
\* made for an email and a password (it is the only one with that email and
\* the store answers), authenticate_user with the same email and password
\* returns a user, with that email and that document's id, and the returned
\* record has no password-hash field.
C11_RegisterThenAuthenticate ==
    [][\A p \in Workers :
        (LoginStep(p) /\ ~req'[p].fault) =>
            \A n \in 1..MaxUsers :
                LET u == user_doc(req[p].email, req[p].password, n) IN
                (u \in users /\ \A v \in users : v.email = u.email => v = u) =>
                    /\ req'[p].status = 200
                    /\ req'[p].user # NoUser
                    /\ req'[p].user.email = req[p].email
                    /\ req'[p].user.id = u.id
                    /\ "hashed_password" \notin DOMAIN req'[p].user]_vars

\* C11 witness: a user registered with a password longer than 72 bytes has
\* logged in with it
C11_Witness ==
    \E p \in Workers :
        /\ req[p].op = "login" /\ req[p].pc = "done" /\ req[p].status = 200
        /\ Len(req[p].password) > 72
        /\ \E n \in 1..MaxUsers :
                user_doc(req[p].email, req[p].password, n) \in users
        /\ req[p].user.email = req[p].email

\* the first 72 bytes of an encoding
First72(bytes) == IF Len(bytes) > 72 THEN SubSeq(bytes, 1, 72) ELSE bytes

\* the truncated form of a password: the password itself up to 72 bytes,
\* else the whole characters that fit in its first 72 bytes
TruncatedForm(bytes) ==
    IF Len(bytes) <= 72 THEN bytes
    ELSE LET k == CHOOSE k \in 0..72 :
                    /\ ~IsContinuation(bytes[k + 1])
                    /\ \A j \in (k + 1)..72 : IsContinuation(bytes[j + 1])
         IN  SubSeq(bytes, 1, k)

\* C12: hashing p (on either path) and verifying q succeeds whenever the
\* encodings of p and q agree on the first 72 bytes, and fails whenever
\* their truncated forms differ.
C12_TruncationSameOnBothPaths ==
    fcase.fn = "verify_password" =>
        /\ (First72(fcase.p) = First72(fcase.q) => fcase.result)
        /\ (TruncatedForm(fcase.p) # TruncatedForm(fcase.q) => ~fcase.result)

\* C12 witness: two different passwords longer than 72 bytes that agree on
\* the first 72 verify as equal
C12_Witness ==
    /\ fcase.fn = "verify_password"
    /\ fcase.p # fcase.q
    /\ Len(fcase.p) > 72 /\ Len(fcase.q) > 72
    /\ First72(fcase.p) = First72(fcase.q)
    /\ fcase.result

\* what the caller of login receives
Response(r) ==
    [status |-> r.status, detail |-> r.detail, www_authenticate |-> r.www_authenticate,
     token |-> r.token, user |-> r.user]

\* the 401 answer of login
Unauthorized ==
    [status |-> 401, detail |-> "Email o contraseña incorrectos",
     www_authenticate |-> "Bearer", token |-> {}, user |-> NoUser]

\* C13: authenticate_user returns None without raising (login answers 401,
\* no exception reaches the handler) when no user has the email, when the
\* password does not verify against the stored hash, or when the user is
\* not active; it returns a user only if a document with the email passes
\* both checks, and it is that user.
C13_AuthenticateReturnsNone ==
    [][\A p \in Workers :
        LoginStep(p) =>
            LET docs == {u \in users : u.email = req[p].email}
                none == /\ req'[p].status = 401 /\ req'[p].error = None
                        /\ req'[p].user = NoUser /\ req'[p].token = {}
            IN  /\ (docs = {} => none)
                /\ ((\A u \in docs : ~verify_password(req[p].password, u.hashed_password))
                        => none)
                /\ ((\A u \in docs : ~u.is_active) => none)
                /\ (~none =>
                        /\ req'[p].status = 200
                        /\ \E u \in docs :
                              /\ verify_password(req[p].password, u.hashed_password)
                              /\ u.is_active
                              /\ req'[p].user = Public(u))]_vars

\* C13 witness: a login with the right password of a user who is not active
\* was answered 401
C13_Witness ==
    \E p \in Workers :
        /\ req[p].op = "login" /\ req[p].pc = "done" /\ req[p].status = 401
        /\ ~req[p].fault
        /\ \E u \in users :
              /\ u.email = req[p].email /\ ~u.is_active
              /\ verify_password(req[p].password, u.hashed_password)

\* C14: a login for an email no user has and a login with a wrong password
\* for an email a user has get the same response: status 401, the same
\* message, the same header, no token and no user.
C14_UnknownEmailLikeWrongPassword ==
    [][\A p \in Workers :
        LoginStep(p) =>
            LET docs == {u \in users : u.email = req[p].email}
                unknown == docs = {}
                wrong == /\ docs # {}
                         /\ \A u \in docs :
                               ~verify_password(req[p].password, u.hashed_password)
            IN  (unknown \/ wrong) => Response(req'[p]) = Unauthorized]_vars

\* C14 witness: a login with a wrong password for a registered, active
\* user was answered
C14_Witness ==
    \E p \in Workers :
        /\ req[p].op = "login" /\ req[p].pc = "done" /\ ~req[p].fault
        /\ Response(req[p]) = Unauthorized
        /\ \E u \in users :
              /\ u.email = req[p].email /\ u.is_active
              /\ ~verify_password(req[p].password, u.hashed_password)

\* C15: a get or a delete of a note id that is not in the store is answered
\* 404, the read having returned none and not an error.
C15_MissingNoteNotFound ==
    [][\A p \in Workers :
        (ReadStep(p) /\ ~req'[p].fault
            /\ ~\E n \in notes : n.id = req[p].note_id) =>
                /\ req'[p].pc = "done"
                /\ req'[p].status = 404
                /\ req'[p].error = None]_vars

\* C16: a request in which a call to a store failed (other than with not
\* found) ends as a failure, and the error its handler received is the
\* store's own.
C16_StoreFailuresPropagate ==
    \A p \in Workers :
        (req[p].pc = "done" /\ req[p].fault) =>
            /\ req[p].status = 500
            /\ req[p].error = "ApiException"

\* the content types transcribe_audio has to try for the request of worker p
CandidatesOf(p) == content_types_to_try(req[p].content_type)

\* the search of worker p's transcription has ended
SearchEnded(p) == req[p].stt \in {"returned", "raised"}

\* C17: transcribe_audio returns the text of the first attempt that came
\* back with a non-empty transcript and attempts nothing after it; an
\* attempt that came back without error and without a non-empty transcript
\* does not end the search while candidates remain.
C17_StopsAtFirstTranscript ==
    \A p \in Workers :
        (req[p].op = "transcribe" /\ req[p].outcomes # << >>) =>
            LET o == req[p].outcomes
                n == Len(o)
            IN  /\ \A i \in 1..(n - 1) : o[i] # "text"
                /\ (o[n] = "text" =>
                        /\ req[p].stt = "returned" /\ req[p].text \in Transcripts
                        /\ req[p].calls = n)
                /\ ((o[n] \in {"blank", "none"} /\ n < Len(CandidatesOf(p)))
                        => ~SearchEnded(p))

\* the message contains "transcode", in any case
AnyCaseTranscode(msg) ==
    msg \in {"unable to transcode data stream", "Unable to Transcode data stream"}

C19_ExhaustedRaisesLastError ==
    \A p \in Workers :
        (/\ req[p].op = "transcribe" /\ SearchEnded(p)
         /\ Len(req[p].outcomes) = Len(CandidatesOf(p))
         /\ \A i \in 1..Len(req[p].outcomes) : req[p].outcomes[i] # "text") =>
            LET o == req[p].outcomes
                errs == {i \in 1..Len(o) : o[i] \in ErrorMessages}
            IN  IF errs # {}
                THEN LET l == CHOOSE i \in errs : \A j \in errs : j <= i IN
                     /\ req[p].stt = "raised"
                     /\ req[p].stt_error = {[attempt |-> l, message |-> o[l]]}
                ELSE req[p].stt = "returned" /\ req[p].text = << >>

\* the first k of the words, a single space between each two
FirstWords(tokens, k) ==
    Spread(SubSeq(tokens, 1, IF k < Len(tokens) THEN k ELSE Len(tokens)), <<" ">>)

DeleteDocStep(p) ==
    req[p].op = "delete" /\ req[p].pc = "delete_document" /\ req'[p].pc = "done"

\* C21: delete_transcription with a revision that is not the current one of
\* a document that is in the store, refused by the store as a conflict,
\* fails with that conflict error (the store's own error, not another one)
\* and leaves the store as it was: the document still there, with the same
\* revision.
C21_StaleRevisionConflict ==
    [][\A p \in Workers :
        (DeleteDocStep(p)
            /\ req'[p].store_status # 503
            /\ \E n \in notes : n.id = req[p].note_id /\ n.rev \notin req'[p].rev_passed) =>
                /\ notes' = notes
                /\ req'[p].store_status = 409
                /\ req'[p].error = "ApiException"]_vars

\* C22: in a delete request the store delete is issued only after the read
\* of that request (one earlier store operation) returned a document that
\* was in the store, has the requested id and has the caller's id as
\* user_id; the revision passed to the delete is the one of that document.
C22_ReadBeforeDelete ==
    [][\A p \in Workers :
        /\ (ReadStep(p) => req'[p].note \subseteq notes)
        /\ ((req'[p].op = "delete"
              /\ (req'[p].pc = "delete_document" \/ req'[p].rev_passed # {})) =>
                /\ req'[p].note # {}
                /\ \A n \in req'[p].note :
                      /\ n.id = req'[p].note_id
                      /\ n.user_id = req'[p].user.id
                      /\ req'[p].user.id # None
                      /\ req'[p].rev_passed \subseteq {n.rev}
                /\ req'[p].ops = IF req'[p].rev_passed = {} THEN 1 ELSE 2)]_vars

\* worker p and another worker have both finished a delete of the same note
BothDeleted(p, q) ==
    /\ p # q
    /\ req[p].op = "delete" /\ req[q].op = "delete"
    /\ req[p].note_id = req[q].note_id
    /\ req[p].pc = "done" /\ req[q].pc = "done"

\* C22 witness: the owner's delete went through with the revision it read
C22_Witness ==
    \E p \in Workers :
        /\ req[p].op = "delete" /\ req[p].pc = "done" /\ req[p].status = 200
        /\ \E n \in req[p].note : req[p].rev_passed = {n.rev} /\ n.user_id = req[p].user.id
        /\ ~\E n \in notes : n.id = req[p].note_id

\* C28: a delete that reports success removed a note that was in the store,
\* and the note is gone afterwards (ids are never given twice, so it is
\* removed once); of two deletes of the same note that overlap, at most one
\* ends 200 and, when one does, the other ends with an error status.
C28_ConcurrentDeletesOnce ==
    [][/\ \A p \in Workers :
            (DeleteDocStep(p) /\ req'[p].status = 200) =>
                /\ \E n \in notes : n.id = req[p].note_id
                /\ \A n \in notes' : n.id # req[p].note_id
                /\ \A n \in notes : n.id # req[p].note_id => n \in notes'
       /\ \A n \in notes' : \E m \in notes : m.id = n.id
       /\ \A p, q \in Workers :
            (BothDeleted(p, q)' /\ req'[p].status = 200) =>
                req'[q].status # 200 /\ req'[q].status >= 400]_vars

\* C28 witness: two deletes by the owner read the same revision; one removed
\* the note, the other was refused by the store and ended 500
C28_Witness ==
    \E p, q \in Workers :
        /\ BothDeleted(p, q)
        /\ req[p].user.id = req[q].user.id
        /\ req[p].rev_passed = req[q].rev_passed /\ req[p].rev_passed # {}
        /\ req[p].status = 200 /\ req[q].status = 500
        /\ ~\E n \in notes : n.id = req[p].note_id

\* worker p completes save_transcription in this step
SaveStep(p) ==
    req[p].op = "transcribe" /\ req[p].pc = "save" /\ req'[p].pc = "done"

\* C23: every note in the store has a user_id that is not null; a note enters
\* the store only in the save step of a transcribe request, with the id of
\* the user the gate authenticated for that request (the subject of its
\* genuine token), after the speech service returned a transcript for that
\* request, which is the note's text.
C23_NotesCarryCreator ==
    [][/\ \A d \in notes' : d.user_id # None
       /\ \A d \in notes' \ notes :
            \E p \in Workers :
                /\ SaveStep(p) /\ req'[p].status = 200
                /\ d.user_id = req[p].user.id
                /\ Genuine(req[p].hdr)
                /\ d.user_id = TokenOf(req[p].hdr).payload.sub
                /\ \E u \in users : u.id = d.user_id
                /\ req[p].stt = "returned" /\ req[p].calls >= 1
                /\ req[p].text # << >> /\ d.texto = req[p].text]_vars

\* C23 witness: a transcribe request of Beto has saved a note
C23_Witness ==
    \E p \in Workers, d \in notes :
        /\ req[p].op = "transcribe" /\ req[p].pc = "done" /\ req[p].status = 200
        /\ d.id = req[p].note_id /\ d.user_id = Beto.id /\ req[p].user.id = Beto.id

\* C24: a list request that succeeds returns at most `limit` documents, and
\* each of them has the authenticated user's id as user_id.
C24_ListOwnNotesUpToLimit ==
    \A p \in Workers :
        (req[p].op = "list" /\ req[p].pc = "done" /\ req[p].status = 200) =>
            /\ Cardinality(req[p].listed) <= req[p].limit
            /\ req[p].user.id # None
            /\ \A d \in req[p].listed : d.user_id = req[p].user.id

\* C24 witness: a list filled up to its limit while the store holds a note
\* that was not returned
C24_Witness ==
    \E p \in Workers :
        /\ req[p].op = "list" /\ req[p].pc = "done" /\ req[p].status = 200
        /\ req[p].listed # {} /\ Cardinality(req[p].listed) = req[p].limit
        /\ notes \ req[p].listed # {}

\* C25: the step in which the gate accepts or rejects a request changes
\* neither the user store nor the note store (nor the tokens), and counts
\* no note-store or speech-service operation for the request.
C25_GateOnlyReads ==
    [][\A p \in Workers :
        GateStep(p) => /\ users' = users
                       /\ notes' = notes
                       /\ issued' = issued
                       /\ req'[p].ops = 0 /\ req'[p].calls = 0]_vars

\* C25 witness: the gate has rejected the token of an inactive account,
\* which is still in the user store, while the note store holds notes
C25_Witness ==
    \E p \in Workers :
        /\ req[p].pc = "done" /\ req[p].ops = 0 /\ req[p].user = NoUser
        /\ ~Unusable(req[p].hdr) /\ TokenOf(req[p].hdr).payload.sub = Caro.id
        /\ Caro \in users /\ notes # {}

\* C26: when transcribe_audio returns the empty text, the transcribe
\* request ends 400 and nothing is saved.
C26_EmptyTranscriptBadRequest ==
    \A p \in Workers :
        (req[p].op = "transcribe" /\ req[p].pc = "done"
            /\ req[p].stt = "returned" /\ req[p].text = << >>) =>
                req[p].status = 400 /\ req[p].ops = 0

\* the candidate list as the claim gives it
ExpectedCandidates(content_type) ==
    IF content_type \in {"audio/wav", "AUDIO/WAV", "audio/x-wav", "audio/wave"}
    THEN <<content_type, "audio/webm", "audio/webm;codecs=opus",
           "audio/ogg;codecs=opus", "audio/mp4", "audio/mpeg">>
    ELSE <<content_type>>

\* C27: the content types transcribe_audio has tried are the first ones of
\* the candidate list, in its order, one request each and none twice: at
\* most 6 requests, exactly 1 once the call is over for a type without
\* "wav", and the call is over when the list is used up.
C27_CandidatesInOrder ==
    \A p \in Workers :
        req[p].op \in {"transcribe", "transcribe_audio"} =>
            LET expected == ExpectedCandidates(req[p].content_type) IN
            /\ req[p].calls = Len(req[p].tried)
            /\ req[p].calls <= Len(expected) /\ req[p].calls <= 6
            /\ req[p].tried = SubSeq(expected, 1, req[p].calls)
            /\ \A i, j \in 1..req[p].calls : i # j => req[p].tried[i] # req[p].tried[j]
            /\ (Len(expected) = 1 /\ SearchEnded(p)) => req[p].calls = 1
            /\ req[p].calls = Len(expected) => SearchEnded(p)
            /\ req[p].stt = "trying" => req[p].calls < Len(expected)

\* C27 witness: a call with an upper-case WAV type has used all six
\* candidates
C27_Witness ==
    \E p \in Workers :
        /\ req[p].op = "transcribe_audio" /\ req[p].content_type = "AUDIO/WAV"
        /\ req[p].calls = 6 /\ req[p].tried[6] = "audio/mpeg" /\ SearchEnded(p)

\* C29: tokens are issued only by a login step that ends 200, and a login
\* step hands out a token only when the user store holds an active user
\* with the email of the request whose hash verifies the password; the
\* token's sub and email are that user's id and email.
C29_TokensOnlyFromLogin ==
    [][/\ (issued' # issued =>
              \E p \in Workers : /\ LoginStep(p) /\ req'[p].status = 200
                                  /\ req'[p].token # {}
                                  /\ issued' = issued \cup req'[p].token)
       /\ \A p \in Workers :
            (LoginStep(p) /\ req'[p].token # {}) =>
                \E u \in users :
                    /\ u.email = req[p].email
                    /\ verify_password(req[p].password, u.hashed_password)
                    /\ u.is_active
                    /\ req'[p].user = Public(u)
                    /\ \A t \in req'[p].token :
                          /\ t.payload.sub = u.id /\ t.payload.email = u.email
                          /\ t \in issued']_vars

\* C29 witness: a login was answered with a token
C29_Witness ==
    \E p \in Workers :
        /\ req[p].op = "login" /\ req[p].pc = "done" /\ req[p].status = 200
        /\ req[p].token # {} /\ req[p].token \subseteq issued

\* worker p completes the checks of the upload in this step
ValidateStep(p) ==
    req[p].op = "transcribe" /\ req[p].pc = "transcribe" /\ req'[p].pc # "transcribe"

\* C30: an upload whose content type is not an allowed one, or whose size
\* is over 10 MB, is answered 400 by the checks of the handler, with no
\* speech-service call, no note-store operation and the note store as it was.
C30_BadUploadRejected ==
    [][\A p \in Workers :
        (ValidateStep(p)
            /\ (req[p].content_type \notin ALLOWED_AUDIO_FORMATS
                    \/ req[p].size > 10 * 1024 * 1024)) =>
                /\ req'[p].pc = "done" /\ req'[p].status = 400
                /\ req'[p].calls = 0 /\ req'[p].ops = 0
                /\ req'[p].stt = "idle"
                /\ notes' = notes]_vars

\* C30 witness: an upload of an allowed type, one byte over the limit, was
\* answered 400
C30_Witness ==
    \E p \in Workers :
        /\ req[p].op = "transcribe" /\ req[p].pc = "done" /\ req[p].status = 400
        /\ req[p].content_type \in ALLOWED_AUDIO_FORMATS
        /\ req[p].size = MAX_FILE_SIZE + 1
        /\ req[p].calls = 0 /\ req[p].ops = 0

====
